---- MODULE Spec2Model ----
(***************************************************************************)
(* File-backed embedding store and similarity search of the RAG lesson:   *)
(* lib/vector-store.ts (loadEmbeddings, saveEmbeddings, addChunks,        *)
(* findRelevantContent) and lib/ai/embedding.ts (generateEmbedding,       *)
(* calculateCosineSimilarity).                                            *)
(*                                                                         *)
(* The client is a script that issues one call at a time and awaits it,   *)
(* as main() of demo-chunking-similarity.ts does.  The only suspension    *)
(* point of findRelevantContent is the await on generateEmbedding.        *)
(*                                                                         *)
(* Further specifications over the same variables: SpecCosine and         *)
(* SpecChunker apply calculateCosineSimilarity and generateChunks to      *)
(* bounded inputs, SpecRoute is the chat route whose tool executions      *)
(* interleave at their awaits, SpecWriters is addChunks run by two        *)
(* processes on one file, SpecJoined chunks texts joined from chunks,     *)
(* SpecScenario searches stores of three kinds of record, SpecReader is   *)
(* the RAG page's reader of the response stream, SpecTools the operator   *)
(* assistant's tools getProductionStatus and getWorkOrderStatus.          *)
(*                                                                         *)
(* Numbers.  Embedding components are integers.  A cosine similarity      *)
(* dot / (sqrt(mA) * sqrt(mB)) is kept as the reduced fraction            *)
(* sgn(dot) * dot^2 / (mA * mB), its signed square, which orders and      *)
(* equates similarities exactly as the cosines themselves do.  A          *)
(* threshold n/d is compared through its own signed square.               *)
(***************************************************************************)
EXTENDS Integers, Sequences, FiniteSets, TLC

VARIABLES
    file,            \* content of the backing file (embeddings.json)
    pc,              \* position of the findRelevantContent call
    args,            \* userQuery, threshold, topK of that call
    store,           \* the store findRelevantContent loaded
    queryEmbedding,  \* how the awaited generateEmbedding settled
    outcome,         \* what the last call returned or threw
    last,            \* the last call: its name, argument and the file before it
    vecA, vecB,      \* arguments of a direct calculateCosineSimilarity call
    cosine,          \* what that call returned or threw
    input,           \* the text handed to generateChunks
    chunked,         \* what generateChunks returned for it
    joined,          \* the chunks the text was joined from, when it was
    exec,            \* the addResource executions of the chat route
    now,             \* Date.now() of the route's process
    completed,       \* batches of the addChunks calls that returned, in order
    writer,          \* processes inside addChunks: what each loaded and adds
    lastWriter,      \* the process whose saveEmbeddings ran last
    response,        \* the lines of the response body the RAG page reads
    offset,          \* how many characters of the body have been read
    buffer,          \* the reader's buffer: the unfinished last line
    parts,           \* assistantMessage.parts
    shown,           \* the parts of the last message in the page's state
    cut,             \* whether some read has ended inside a line
    reading,         \* position of the read loop
    today,           \* the date of the tools' clock
    toolInput,       \* the input a tool's execute was called with
    toolOutput       \* what execute returned

varsStore == <<file, pc, args, store, queryEmbedding, outcome, last>>
varsCosine == <<vecA, vecB, cosine>>
varsChunker == <<input, chunked, joined>>
varsRoute == <<exec, now, completed>>
varsWriters == <<writer, lastWriter>>
varsReader == <<response, offset, buffer, parts, shown, cut, reading>>
varsTools == <<today, toolInput, toolOutput>>
varsOther == <<varsCosine, varsChunker, varsRoute, varsWriters, varsReader, varsTools>>
vars == <<file, pc, args, store, queryEmbedding, outcome, last, vecA, vecB, cosine,
          input, chunked, joined, exec, now, completed,
          writer, lastWriter, response, offset, buffer, parts, shown, cut, reading,
          today, toolInput, toolOutput>>

(***************************************************************************)
(* Bounds                                                                  *)
(***************************************************************************)
\* longest record list the backing file is allowed to reach
MaxStore == 3
\* longest record list handed to saveEmbeddings or addChunks in one call
MaxBatch == 2
\* largest topK a caller passes
MaxTopK == 3
\* longest vector handed to calculateCosineSimilarity directly
MaxDim == 3
\* largest absolute value of a component of such a vector
MaxComp == 1
\* longest text handed to generateChunks, in characters
MaxText == 5
\* number of addResource executions the chat route runs
MaxExecs == 2
\* last millisecond Date.now() reaches
MaxNow == 1
MaxChunks == 3
MaxChunkLen == 3
MaxIdLen == 2
MaxLines == 3
MaxRead == 12

(***************************************************************************)
(* Records (ChunkWithEmbedding) the clients write                          *)
(***************************************************************************)
Undefined == "undefined"

ChunkWithEmbedding(id, content, embedding, source, metadata) ==
    [id |-> id, content |-> content, embedding |-> embedding,
     source |-> source, metadata |-> metadata]

\* A and T carry the same embedding, so they tie against every query;
\* E was produced by an embedding model of another dimension.
RecA == ChunkWithEmbedding("chunk_0", "A", <<1, 0>>, "material-specs.json", "material-spec")
RecB == ChunkWithEmbedding("chunk_1", "B", <<0, 1>>, "material-charts.json", "material-chart")
RecT == ChunkWithEmbedding("chunk_2", "T", <<1, 0>>, "user-added", Undefined)
RecE == ChunkWithEmbedding("chunk_3", "E", <<1>>, "user-added", Undefined)

Pool == {RecA, RecB, RecT, RecE}

RECURSIVE SeqsUpTo(_, _)
SeqsUpTo(S, n) ==
    IF n = 0 THEN {<<>>}
    ELSE LET shorter == SeqsUpTo(S, n - 1)
         IN  shorter \cup {Append(s, x) : s \in {t \in shorter : Len(t) = n - 1}, x \in S}

\* the record lists a caller writes in one call
Batches == SeqsUpTo(Pool, MaxBatch)

\* the embeddings the provider returns for the queries asked
QueryVecs == {<<1, 0>>, <<1, 1>>}
Queries == {"", "yield strength of SS316"}
\* thresholds -1, 0, 0.5 (the default), 1 and 2, as fractions
Frac(n, d) == [num |-> n, den |-> d]
Thresholds == {Frac(0 - 1, 1), Frac(0, 1), Frac(1, 2), Frac(1, 1), Frac(2, 1)}
TopKs == (0 - 1) .. MaxTopK

(***************************************************************************)
(* Outcome of a call: a returned value or a thrown error                   *)
(***************************************************************************)
NoValue == <<>>
Return(v) == [threw |-> FALSE, error |-> "none", value |-> v]
Throw(e) == [threw |-> TRUE, error |-> e, value |-> NoValue]
Pending == [threw |-> FALSE, error |-> "pending", value |-> NoValue]

SyntaxError == "SyntaxError"
TypeError == "TypeError"
LengthError == "Error: Vectors must have the same length"
ProviderError == "EmbeddingProviderError"

(***************************************************************************)
(* The backing file and JSON                                               *)
(***************************************************************************)
\* a parsed JSON document: an EmbeddingStore, or a value of another shape
EmbeddingStore(chunks) == [shape |-> "store", chunks |-> chunks]
EmptyObjectDoc == [shape |-> "emptyObject", chunks |-> <<>>]
ChunksNotListDoc == [shape |-> "chunksNotList", chunks |-> <<>>]
NoDoc == [shape |-> "none", chunks |-> <<>>]

Absent == [kind |-> "absent", doc |-> NoDoc]
Garbage == [kind |-> "garbage", doc |-> NoDoc]
JSONstringify(doc) == [kind |-> "json", doc |-> doc]
JSONparse(text) ==
    IF text.kind = "json" THEN Return(text.doc) ELSE Throw(SyntaxError)

Stores == {EmbeddingStore(s) : s \in SeqsUpTo(Pool, MaxStore)}
Files == {Absent, Garbage, JSONstringify(EmptyObjectDoc), JSONstringify(ChunksNotListDoc)}
            \cup {JSONstringify(s) : s \in Stores}

\* store.chunks is an array: push and map exist on it
HasChunkList(doc) == doc.shape = "store"

\* variant: no existsSync check, a missing file makes readFileSync throw
loadEmbeddingsUnguarded(f) ==
    IF f.kind = "absent" THEN Throw("ENOENT") ELSE JSONparse(f)

\* f is the content found at filePath
loadEmbeddings(f) ==
    IF f.kind = "absent" THEN Return(EmbeddingStore(<<>>)) ELSE JSONparse(f)

\* variant: the records already in the file are kept in front of the given ones
saveEmbeddingsMerging(f, st) ==
    JSONstringify(EmbeddingStore(f.doc.chunks \o st.chunks))

\* the content of the file at filePath after the write; f is its content before
saveEmbeddings(f, st) == JSONstringify(st)

\* variant: the loaded records are not carried over into the write
addChunksOverwriting(f, chunks) ==
    LET loaded == loadEmbeddings(f)
    IN  IF loaded.threw THEN [file |-> f, outcome |-> loaded]
        ELSE IF ~HasChunkList(loaded.value)
             THEN [file |-> f, outcome |-> Throw(TypeError)]
             ELSE [file |-> saveEmbeddings(f, EmbeddingStore(chunks)),
                   outcome |-> Return(NoValue)]

\* the file after addChunks and what the call returned or threw
addChunks(f, chunks) ==
    LET loaded == loadEmbeddings(f)
    IN  IF loaded.threw THEN [file |-> f, outcome |-> loaded]
        ELSE IF ~HasChunkList(loaded.value)
             THEN [file |-> f, outcome |-> Throw(TypeError)]
             ELSE [file |-> saveEmbeddings(f, EmbeddingStore(loaded.value.chunks \o chunks)),
                   outcome |-> Return(NoValue)]

(***************************************************************************)
(* calculateCosineSimilarity                                               *)
(***************************************************************************)
Abs(x) == IF x < 0 THEN -x ELSE x
Sgn(x) == IF x > 0 THEN 1 ELSE IF x < 0 THEN -1 ELSE 0
SgnSq(x) == Sgn(x) * x * x

RECURSIVE GCD(_, _)
GCD(a, b) == IF b = 0 THEN a ELSE GCD(b, a % b)

Reduce(n, d) == LET g == GCD(Abs(n), d) IN Frac(n \div g, d \div g)

\* sign of x - y for fractions with positive denominators
FracCmp(x, y) == Sgn(x.num * y.den - y.num * x.den)

\* sum over i < n of a[i] * b[i], the loops of lines 50-52 and 57-60
RECURSIVE SumProducts(_, _, _)
SumProducts(a, b, n) ==
    IF n = 0 THEN 0 ELSE SumProducts(a, b, n - 1) + a[n] * b[n]

\* dotProduct / (magnitudeA * magnitudeB) as a signed square;
\* mA and mB are the sums of squares before Math.sqrt
\* variant: no zero-magnitude branch; 0 / 0 is NaN, written 0/0
QuotientUnguarded(dotProduct, mA, mB) ==
    IF mA = 0 \/ mB = 0 THEN Frac(0, 0)
    ELSE Reduce(SgnSq(dotProduct), mA * mB)

Quotient(dotProduct, mA, mB) ==
    IF mA = 0 \/ mB = 0 THEN Frac(0, 1)
    ELSE Reduce(SgnSq(dotProduct), mA * mB)

Min(a, b) == IF a < b THEN a ELSE b
Max(a, b) == IF a > b THEN a ELSE b

\* variant: no length check, the longer vector is cut to the shorter one
cosineTruncating(a, b) ==
    LET n == Min(Len(a), Len(b))
    IN  Return(Quotient(SumProducts(a, b, n), SumProducts(a, a, n), SumProducts(b, b, n)))

calculateCosineSimilarity(a, b) ==
    IF Len(a) # Len(b) THEN Throw(LengthError)
    ELSE Return(Quotient(SumProducts(a, b, Len(a)),
                         SumProducts(a, a, Len(a)),
                         SumProducts(b, b, Len(a))))

(***************************************************************************)
(* findRelevantContent after the query embedding has arrived               *)
(***************************************************************************)
\* variant: the whole stored record is spread into the result
SimilarChunkSpread(chunk, similarity) ==
    [id |-> chunk.id, content |-> chunk.content, embedding |-> chunk.embedding,
     similarity |-> similarity, source |-> chunk.source, metadata |-> chunk.metadata]

SimilarChunk(chunk, similarity) ==
    [content |-> chunk.content, similarity |-> similarity,
     source |-> chunk.source, metadata |-> chunk.metadata]

\* the threshold n/d on the scale of the stored similarities
OnSimilarityScale(threshold) == Frac(SgnSq(threshold.num), threshold.den * threshold.den)

\* variant: chunk.similarity >= threshold
AboveOrAtThreshold(similarity, threshold) ==
    FracCmp(similarity, OnSimilarityScale(threshold)) >= 0

\* chunk.similarity > threshold
AboveThreshold(similarity, threshold) ==
    FracCmp(similarity, OnSimilarityScale(threshold)) > 0

\* variant: (a, b) => a.similarity - b.similarity
compareFnAscending(a, b) == FracCmp(a.similarity, b.similarity)

\* (a, b) => b.similarity - a.similarity, by its sign
compareFn(a, b) == FracCmp(b.similarity, a.similarity)

RECURSIVE filter(_, _)
filter(seq, threshold) ==
    IF seq = <<>> THEN <<>>
    ELSE LET rest == filter(Tail(seq), threshold)
         IN  IF AboveThreshold(Head(seq).similarity, threshold)
             THEN <<Head(seq)>> \o rest ELSE rest

\* variant: x goes ahead of the elements it ties with (an unstable sort)
InsertSortedUnstable(sorted, x) ==
    LET later == {p \in 1 .. Len(sorted) : FracCmp(x.similarity, sorted[p].similarity) >= 0}
        at == IF later = {} THEN Len(sorted) + 1
              ELSE CHOOSE p \in later : \A r \in later : p <= r
    IN  SubSeq(sorted, 1, at - 1) \o <<x>> \o SubSeq(sorted, at, Len(sorted))

\* x goes behind every element it does not have to precede
InsertSorted(sorted, x) ==
    LET later == {p \in 1 .. Len(sorted) : compareFn(sorted[p], x) > 0}
        at == IF later = {} THEN Len(sorted) + 1
              ELSE CHOOSE p \in later : \A r \in later : p <= r
    IN  SubSeq(sorted, 1, at - 1) \o <<x>> \o SubSeq(sorted, at, Len(sorted))

\* Array.prototype.sort with compareFn: a stable sort
RECURSIVE sort(_)
sort(seq) ==
    IF seq = <<>> THEN <<>>
    ELSE InsertSorted(sort(SubSeq(seq, 1, Len(seq) - 1)), seq[Len(seq)])

\* variant: the element at index end is kept too
sliceInclusive(seq, start, end) ==
    SubSeq(seq, start + 1, Min(end + 1, Len(seq)))

\* Array.prototype.slice(start, end), negative indices counting from the end
slice(seq, start, end) ==
    LET from == IF start < 0 THEN Max(Len(seq) + start, 0) ELSE Min(start, Len(seq))
        to == IF end < 0 THEN Max(Len(seq) + end, 0) ELSE Min(end, Len(seq))
    IN  SubSeq(seq, from + 1, to)

\* variant: records whose embedding has another length are left out
rankSkipping(st, embedding, threshold, topK) ==
    IF ~HasChunkList(st) THEN Throw(TypeError)
    ELSE LET comparable == SelectSeq(st.chunks,
                               LAMBDA c : Len(c.embedding) = Len(embedding))
             similarities == [i \in 1 .. Len(comparable) |->
                                 SimilarChunk(comparable[i],
                                     calculateCosineSimilarity(embedding, comparable[i].embedding).value)]
         IN  Return(slice(sort(filter(similarities, threshold)), 0, topK))

\* lines 60-73: map, filter, sort, slice
rank(st, embedding, threshold, topK) ==
    IF ~HasChunkList(st) THEN Throw(TypeError)
    ELSE LET scored == [i \in 1 .. Len(st.chunks) |->
                           calculateCosineSimilarity(embedding, st.chunks[i].embedding)]
         IN  IF \E i \in 1 .. Len(scored) : scored[i].threw
             THEN Throw(LengthError)
             ELSE LET similarities == [i \in 1 .. Len(scored) |->
                                          SimilarChunk(st.chunks[i], scored[i].value)]
                  IN  Return(slice(sort(filter(similarities, threshold)), 0, topK))

(***************************************************************************)
(* The script: store calls and findRelevantContent, one at a time          *)
(***************************************************************************)
NoArgs == [userQuery |-> "", threshold |-> Frac(0, 1), topK |-> 0]
NoCall == [op |-> "none", arg |-> <<>>, before |-> Absent]
Call(op, arg, before) == [op |-> op, arg |-> arg, before |-> before]

\* the parts of the state a specification does not use
Execs == 1 .. MaxExecs
Writers == {"server", "demo"}
IdleExec == [pc |-> "idle", content |-> <<>>, batch |-> <<>>, overlapped |-> FALSE]
IdleWriter == [pc |-> "idle", loaded |-> NoDoc, chunks |-> <<>>]
NoCosine == vecA = <<>> /\ vecB = <<>> /\ cosine = Pending
NoChunker == input = <<>> /\ chunked = Pending /\ joined = <<>>
NoRoute == exec = [e \in Execs |-> IdleExec] /\ now = 0 /\ completed = <<>>
NoWriters == writer = [w \in Writers |-> IdleWriter] /\ lastWriter = "none"
NoReader ==
    /\ response = <<>>
    /\ offset = 0
    /\ buffer = <<>>
    /\ parts = <<>>
    /\ shown = <<>>
    /\ cut = FALSE
    /\ reading = "idle"
NoTools ==
    /\ today = "none"
    /\ toolInput = [tool |-> "none"]
    /\ toolOutput = Pending
NoFind ==
    /\ pc = "idle"
    /\ args = NoArgs
    /\ store = NoDoc
    /\ queryEmbedding = Pending
    /\ outcome = Pending
    /\ last = NoCall

Init ==
    /\ file \in Files
    /\ NoFind
    /\ NoCosine
    /\ NoChunker
    /\ NoRoute
    /\ NoWriters
    /\ NoReader
    /\ NoTools

\* no findRelevantContent call is suspended
Free == pc # "awaitEmbed"

ForgetFind ==
    /\ pc' = "idle"
    /\ args' = NoArgs
    /\ store' = NoDoc
    /\ queryEmbedding' = Pending

LoadEmbeddings ==
    /\ Free
    /\ outcome' = loadEmbeddings(file)
    /\ last' = Call("loadEmbeddings", <<>>, file)
    /\ ForgetFind
    /\ UNCHANGED <<file, varsOther>>

SaveEmbeddings(chunks) ==
    /\ Free
    /\ file' = saveEmbeddings(file, EmbeddingStore(chunks))
    /\ outcome' = Return(NoValue)
    /\ last' = Call("saveEmbeddings", chunks, file)
    /\ ForgetFind
    /\ UNCHANGED varsOther

AddChunks(chunks) ==
    /\ Free
    /\ Len(file.doc.chunks) + Len(chunks) <= MaxStore
    /\ LET done == addChunks(file, chunks)
       IN  /\ file' = done.file
           /\ outcome' = done.outcome
    /\ last' = Call("addChunks", chunks, file)
    /\ ForgetFind
    /\ UNCHANGED varsOther

\* variant: a missing backing file is created, empty, by the load
FindRelevantContentCreating(userQuery, threshold, topK) ==
    /\ Free
    /\ args' = [userQuery |-> userQuery, threshold |-> threshold, topK |-> topK]
    /\ last' = Call("findRelevantContent", <<>>, file)
    /\ queryEmbedding' = Pending
    /\ pc' = IF loadEmbeddings(file).threw THEN "done" ELSE "awaitEmbed"
    /\ store' = IF loadEmbeddings(file).threw THEN NoDoc ELSE loadEmbeddings(file).value
    /\ outcome' = IF loadEmbeddings(file).threw THEN loadEmbeddings(file) ELSE Pending
    /\ file' = IF file.kind = "absent" THEN JSONstringify(EmbeddingStore(<<>>)) ELSE file
    /\ UNCHANGED varsOther

\* lines 47-57: load the store, then suspend on generateEmbedding
FindRelevantContent(userQuery, threshold, topK) ==
    /\ Free
    /\ args' = [userQuery |-> userQuery, threshold |-> threshold, topK |-> topK]
    /\ last' = Call("findRelevantContent", <<>>, file)
    /\ queryEmbedding' = Pending
    /\ LET loaded == loadEmbeddings(file)
       IN  IF loaded.threw
           THEN /\ pc' = "done"
                /\ store' = NoDoc
                /\ outcome' = loaded
           ELSE /\ pc' = "awaitEmbed"
                /\ store' = loaded.value
                /\ outcome' = Pending
    /\ UNCHANGED <<file, varsOther>>

\* variant: the store is read again when the await resumes
GenerateEmbeddingResolvesReloading(embedding) ==
    /\ pc = "awaitEmbed"
    /\ queryEmbedding' = Return(embedding)
    /\ store' = loadEmbeddings(file).value
    /\ outcome' = rank(loadEmbeddings(file).value, embedding, args.threshold, args.topK)
    /\ pc' = "done"
    /\ UNCHANGED <<file, args, last, varsOther>>

\* the await of line 57 resumes with the embedding; lines 60-73 run
GenerateEmbeddingResolves(embedding) ==
    /\ pc = "awaitEmbed"
    /\ queryEmbedding' = Return(embedding)
    /\ outcome' = rank(store, embedding, args.threshold, args.topK)
    /\ pc' = "done"
    /\ UNCHANGED <<file, args, store, last, varsOther>>

\* variant: a failed embed() is replaced by a zero vector and the search goes on
GenerateEmbeddingRejectsZeroVector ==
    /\ pc = "awaitEmbed"
    /\ queryEmbedding' = Throw(ProviderError)
    /\ outcome' = rank(store, <<0, 0>>, args.threshold, args.topK)
    /\ pc' = "done"
    /\ UNCHANGED <<file, args, store, last, varsOther>>

\* embed() fails: the await throws and the async function rejects
GenerateEmbeddingRejects ==
    /\ pc = "awaitEmbed"
    /\ queryEmbedding' = Throw(ProviderError)
    /\ outcome' = Throw(ProviderError)
    /\ pc' = "done"
    /\ UNCHANGED <<file, args, store, last, varsOther>>

Next ==
    \/ LoadEmbeddings
    \/ \E chunks \in Batches : SaveEmbeddings(chunks)
    \/ \E chunks \in Batches : AddChunks(chunks)
    \/ \E q \in Queries, t \in Thresholds, k \in TopKs : FindRelevantContent(q, t, k)
    \/ \E v \in QueryVecs : GenerateEmbeddingResolves(v)
    \/ GenerateEmbeddingRejects

Spec == Init /\ [][Next]_vars

(***************************************************************************)
(* calculateCosineSimilarity called directly on arbitrary vectors          *)
(***************************************************************************)
Components == (0 - MaxComp) .. MaxComp
Vectors == SeqsUpTo(Components, MaxDim) \ {<<>>}

InitCosine ==
    /\ file = Absent
    /\ NoFind
    /\ vecA \in Vectors
    /\ vecB \in Vectors
    /\ cosine = Pending
    /\ NoChunker
    /\ NoRoute
    /\ NoWriters
    /\ NoReader
    /\ NoTools

CalculateCosineSimilarity ==
    /\ cosine.error = "pending"
    /\ cosine' = calculateCosineSimilarity(vecA, vecB)
    /\ UNCHANGED <<varsStore, vecA, vecB, varsChunker, varsRoute, varsWriters, varsReader, varsTools>>

NextCosine == CalculateCosineSimilarity

SpecCosine == InitCosine /\ [][NextCosine]_vars

(***************************************************************************)
(* What a finished findRelevantContent call is measured against            *)
(***************************************************************************)
FindReturned ==
    pc = "done" /\ last.op = "findRelevantContent" /\ ~outcome.threw

\* similarity of the i-th loaded record to the query embedding
Score(i) ==
    calculateCosineSimilarity(queryEmbedding.value, store.chunks[i].embedding).value

Projected(i) == SimilarChunk(store.chunks[i], Score(i))

\* the loaded records whose similarity is strictly greater than the threshold
Exceeding ==
    {i \in 1 .. Len(store.chunks) :
        FracCmp(Score(i), OnSimilarityScale(args.threshold)) = 1}

\* record i ranks before record m: higher similarity, or equal and inserted earlier
RanksBefore(i, m) ==
    \/ FracCmp(Score(i), Score(m)) = 1
    \/ FracCmp(Score(i), Score(m)) = 0 /\ i < m

\* idx names, position by position, the stored records the result was made from
Names(idx) ==
    \A j \in 1 .. Len(outcome.value) : outcome.value[j] = Projected(idx[j])

Origins == [1 .. Len(outcome.value) -> 1 .. Len(store.chunks)]

\* C1: every returned record is a stored record whose similarity to the query
\* is strictly greater than the threshold, and when at most topK stored
\* records exceed the threshold every one of them is returned.
C1_ThresholdFilter ==
    FindReturned =>
        /\ \A j \in 1 .. Len(outcome.value) :
              /\ FracCmp(outcome.value[j].similarity, OnSimilarityScale(args.threshold)) = 1
              /\ \E i \in Exceeding : outcome.value[j] = Projected(i)
        /\ Cardinality(Exceeding) <= args.topK =>
              /\ Len(outcome.value) = Cardinality(Exceeding)
              /\ \E idx \in Origins :
                    /\ Names(idx)
                    /\ {idx[j] : j \in 1 .. Len(outcome.value)} = Exceeding

\* a record sits exactly on the threshold and is left out while another is returned
C1_Witness ==
    /\ FindReturned
    /\ Cardinality(Exceeding) <= args.topK
    /\ Len(outcome.value) > 0
    /\ \E i \in 1 .. Len(store.chunks) :
          /\ FracCmp(Score(i), OnSimilarityScale(args.threshold)) = 0
          /\ \A j \in 1 .. Len(outcome.value) : outcome.value[j].content # store.chunks[i].content

\* C2: the result is in descending order of similarity, and of two returned
\* records with equal similarity the one inserted earlier comes first.
C2_SortedStable ==
    FindReturned =>
        \E idx \in Origins :
            /\ Names(idx)
            /\ \A j, k \in 1 .. Len(outcome.value) : j < k => RanksBefore(idx[j], idx[k])

\* three results: a strict descent and a tie between different records
C2_Witness ==
    /\ FindReturned
    /\ Len(outcome.value) = 3
    /\ FracCmp(outcome.value[1].similarity, outcome.value[2].similarity) = 0
    /\ outcome.value[1].content # outcome.value[2].content
    /\ FracCmp(outcome.value[2].similarity, outcome.value[3].similarity) = 1
    /\ store.chunks[1].content = outcome.value[3].content

\* C3: for topK >= 0 the result has at most topK entries, and they are the
\* first topK of the ranking of the records that exceed the threshold.
C3_TopKTruncation ==
    (FindReturned /\ args.topK >= 0) =>
        /\ Len(outcome.value) <= args.topK
        /\ Len(outcome.value) = Min(args.topK, Cardinality(Exceeding))
        /\ \E idx \in Origins :
              /\ Names(idx)
              /\ \A j, k \in 1 .. Len(outcome.value) : j < k => RanksBefore(idx[j], idx[k])
              /\ \A m \in Exceeding \ {idx[j] : j \in 1 .. Len(outcome.value)} :
                    \A j \in 1 .. Len(outcome.value) : RanksBefore(idx[j], m)

\* more records exceed the threshold than topK lets through
C3_Witness ==
    /\ FindReturned
    /\ args.topK >= 1
    /\ Cardinality(Exceeding) > args.topK
    /\ Len(outcome.value) = args.topK

(***************************************************************************)
(* The store calls                                                         *)
(***************************************************************************)
\* the record list a load of file content f yields
Loaded(f) == loadEmbeddings(f).value.chunks

\* C4: after a successful addChunks a load returns the records stored before
\* followed by the added ones, in order; the file is what saveEmbeddings of
\* that concatenation writes.
C4_AppendRoundTrip ==
    (last.op = "addChunks" /\ ~outcome.threw) =>
        /\ ~loadEmbeddings(file).threw
        /\ Loaded(file) = Loaded(last.before) \o last.arg
        /\ file = saveEmbeddings(last.before, EmbeddingStore(Loaded(last.before) \o last.arg))

\* records were added behind records already stored
C4_Witness ==
    /\ last.op = "addChunks"
    /\ ~outcome.threw
    /\ Loaded(last.before) # <<>>
    /\ last.arg # <<>>
    /\ Len(Loaded(file)) = MaxStore

\* C5: after saveEmbeddings a load returns exactly the saved sequence, whatever
\* the file held before.
C5_SaveOverwrites ==
    last.op = "saveEmbeddings" =>
        /\ ~loadEmbeddings(file).threw
        /\ HasChunkList(loadEmbeddings(file).value)
        /\ Loaded(file) = last.arg

\* a stored record that is not in the saved sequence is gone
C5_Witness ==
    /\ last.op = "saveEmbeddings"
    /\ last.arg # <<>>
    /\ last.before.kind = "json"
    /\ \E i \in 1 .. Len(last.before.doc.chunks) :
          /\ \A j \in 1 .. Len(last.arg) : last.arg[j] # last.before.doc.chunks[i]
          /\ \A j \in 1 .. Len(Loaded(file)) : Loaded(file)[j] # last.before.doc.chunks[i]

\* C6: with no backing file loadEmbeddings returns an empty store and does not
\* throw; findRelevantContent then returns an empty result unless the embedding
\* call fails; addChunks creates the file with exactly the added records.
C6_AbsentIsEmpty ==
    last.before.kind = "absent" =>
        /\ last.op = "loadEmbeddings" =>
              /\ ~outcome.threw
              /\ HasChunkList(outcome.value)
              /\ outcome.value.chunks = <<>>
        /\ last.op = "findRelevantContent" =>
              /\ pc \in {"awaitEmbed", "done"}
              /\ HasChunkList(store) /\ store.chunks = <<>>
              /\ pc = "done" =>
                    IF queryEmbedding.threw THEN outcome = queryEmbedding
                    ELSE ~outcome.threw /\ outcome.value = <<>>
        /\ last.op = "addChunks" =>
              /\ ~outcome.threw
              /\ file = JSONstringify(EmbeddingStore(last.arg))

\* a search over a store that was never written came back empty
C6_Witness ==
    /\ last.op = "findRelevantContent"
    /\ last.before.kind = "absent"
    /\ file.kind = "absent"
    /\ pc = "done"
    /\ ~outcome.threw
    /\ outcome.value = <<>>

\* C7: loadEmbeddings on a file that exists but does not hold a store (invalid
\* JSON, or JSON of another shape) throws; it never returns a value.
C7_CorruptFails ==
    (/\ last.op = "loadEmbeddings"
     /\ last.before.kind # "absent"
     /\ ~(last.before.kind = "json" /\ HasChunkList(last.before.doc)))
        => outcome.threw

\* C8: if the embedding of any loaded record differs in length from the query
\* embedding, findRelevantContent throws the length error and returns nothing.
C8_MismatchFailsWhole ==
    (/\ pc = "done"
     /\ queryEmbedding.error = "none"
     /\ HasChunkList(store)
     /\ \E i \in 1 .. Len(store.chunks) :
           Len(store.chunks[i].embedding) # Len(queryEmbedding.value))
        => outcome.threw /\ outcome.error = LengthError

\* the call threw although another loaded record exceeds the threshold
C8_Witness ==
    /\ pc = "done"
    /\ queryEmbedding.error = "none"
    /\ outcome.threw
    /\ outcome.error = LengthError
    /\ \E i, m \in 1 .. Len(store.chunks) :
          /\ Len(store.chunks[i].embedding) # Len(queryEmbedding.value)
          /\ Len(store.chunks[m].embedding) = Len(queryEmbedding.value)
          /\ FracCmp(Score(m), OnSimilarityScale(args.threshold)) = 1

\* C9: calculateCosineSimilarity on vectors of different lengths throws the
\* length error; it returns no score.
C9_DimensionMismatch ==
    (cosine.error # "pending" /\ Len(vecA) # Len(vecB)) =>
        cosine.threw /\ cosine.error = LengthError

\* the call threw on vectors of which one is a prefix of the other
C9_Witness ==
    /\ cosine.threw
    /\ Len(vecA) < Len(vecB)
    /\ \A i \in 1 .. Len(vecA) : vecA[i] = vecB[i] /\ vecA[i] # 0

\* C10: if generateEmbedding fails, findRelevantContent fails with that very
\* error; no result list is returned.
C10_EmbeddingFailurePropagates ==
    (pc = "done" /\ queryEmbedding.threw) =>
        outcome.threw /\ outcome.error = queryEmbedding.error

\* the embedding call failed over a store whose records all have two components
C10_Witness ==
    /\ pc = "done"
    /\ queryEmbedding.threw
    /\ outcome.threw
    /\ Len(store.chunks) > 0
    /\ \A i \in 1 .. Len(store.chunks) : Len(store.chunks[i].embedding) = 2

(***************************************************************************)
(* generateChunks: a text is a sequence of characters                      *)
(***************************************************************************)
Chars == {"a", "b", " ", "."}
Texts == SeqsUpTo(Chars, MaxText)

IsWhitespace(c) == c = " "

\* String.prototype.trim
RECURSIVE trim(_)
trim(s) ==
    IF s = <<>> THEN s
    ELSE IF IsWhitespace(Head(s)) THEN trim(Tail(s))
    ELSE IF IsWhitespace(s[Len(s)]) THEN trim(SubSeq(s, 1, Len(s) - 1))
    ELSE s

\* String.prototype.split("."): the pieces between the periods, empty ones included
RECURSIVE split(_)
split(s) ==
    LET periods == {i \in 1 .. Len(s) : s[i] = "."}
    IN  IF periods = {} THEN <<s>>
        ELSE LET first == CHOOSE i \in periods : \A k \in periods : i <= k
             IN  <<SubSeq(s, 1, first - 1)>> \o split(SubSeq(s, first + 1, Len(s)))

\* .filter((i) => i !== "")
filterNonEmpty(pieces) == SelectSeq(pieces, LAMBDA piece : piece # <<>>)

\* variant: the pieces are kept as split
mapKeep(pieces) == pieces

\* .map((chunk) => chunk.trim())
mapTrim(pieces) == [i \in 1 .. Len(pieces) |-> trim(pieces[i])]

\* variant: the empty pieces are not filtered out
generateChunksUnfiltered(text) == mapTrim(split(trim(text)))

generateChunks(text) == mapTrim(filterNonEmpty(split(trim(text))))

InitChunker ==
    /\ file = Absent
    /\ NoFind
    /\ NoCosine
    /\ input \in Texts
    /\ chunked = Pending
    /\ joined = <<>>
    /\ NoRoute
    /\ NoWriters
    /\ NoReader
    /\ NoTools

GenerateChunks ==
    /\ chunked.error = "pending"
    /\ chunked' = Return(generateChunks(input))
    /\ UNCHANGED <<varsStore, varsCosine, input, joined, varsRoute, varsWriters, varsReader, varsTools>>

NextChunker == GenerateChunks

SpecChunker == InitChunker /\ [][NextChunker]_vars

\* generateChunks applied to texts made by joining chunks with ". ", as the
\* demo builds specsText, chartsText and proceduresText
WellFormed(chunk) ==
    /\ chunk # <<>>
    /\ ~IsWhitespace(chunk[1])
    /\ ~IsWhitespace(chunk[Len(chunk)])
    /\ \A i \in 1 .. Len(chunk) : chunk[i] # "."

WellFormedChunks == {chunk \in SeqsUpTo(Chars, MaxChunkLen) : WellFormed(chunk)}
ChunkLists == SeqsUpTo(WellFormedChunks, MaxChunks)

\* Array.prototype.join(". ")
RECURSIVE join(_)
join(pieces) ==
    IF pieces = <<>> THEN <<>>
    ELSE IF Len(pieces) = 1 THEN pieces[1]
    ELSE pieces[1] \o <<".", " ">> \o join(Tail(pieces))

InitJoined ==
    /\ file = Absent
    /\ NoFind
    /\ NoCosine
    /\ joined \in ChunkLists
    /\ input = join(joined)
    /\ chunked = Pending
    /\ NoRoute
    /\ NoWriters
    /\ NoReader
    /\ NoTools

SpecJoined == InitJoined /\ [][NextChunker]_vars

Whitespace(s) == \A i \in 1 .. Len(s) : IsWhitespace(s[i])

\* C19: every chunk generateChunks returns is non-empty and has no whitespace
\* at either end.
C19_ChunksNonEmptyTrimmed ==
    chunked.error = "none" =>
        \A i \in 1 .. Len(chunked.value) :
            /\ chunked.value[i] # <<>>
            /\ ~IsWhitespace(chunked.value[i][1])
            /\ ~IsWhitespace(chunked.value[i][Len(chunked.value[i])])

\* C22: for vectors of equal length of which at least one has norm zero,
\* calculateCosineSimilarity returns exactly 0 and does not throw.
ZeroNorm(v) == \A i \in 1 .. Len(v) : v[i] = 0

C22_ZeroNormGivesZero ==
    (/\ cosine.error # "pending"
     /\ Len(vecA) = Len(vecB)
     /\ (ZeroNorm(vecA) \/ ZeroNorm(vecB)))
        => cosine = Return(Frac(0, 1))

\* a zero vector has been compared with a vector that is not zero
C22_Witness ==
    /\ cosine = Return(Frac(0, 1))
    /\ Len(vecA) = Len(vecB)
    /\ Len(vecA) >= 2
    /\ ZeroNorm(vecB)
    /\ ~ZeroNorm(vecA)

\* C21: chunking the text joined with ". " from non-empty, trimmed,
\* period-free chunks returns exactly these chunks in the same order.
C21_ChunkingInvertsJoining ==
    chunked.error = "none" => chunked.value = joined

\* three chunks, one with a blank inside, have been joined and chunked
C21_Witness ==
    /\ chunked.error = "none"
    /\ Len(joined) = 3
    /\ \E i \in 1 .. 3 : \E k \in 1 .. Len(joined[i]) : IsWhitespace(joined[i][k])
    /\ chunked.value = joined

\* C20: generateChunks of a text that is empty or all whitespace returns no
\* chunk.
C20_BlankTextNoChunks ==
    (chunked.error = "none" /\ Whitespace(input)) => chunked.value = <<>>

\* a text of several blanks has been chunked
C20_Witness ==
    /\ chunked.error = "none"
    /\ Len(input) >= 2
    /\ Whitespace(input)
    /\ chunked.value = <<>>

(***************************************************************************)
(* The chat route: addResource and getInformation executions of one        *)
(* process, suspended only at their awaits, and runs of the demo script    *)
(***************************************************************************)
\* the texts the model passes to addResource
RouteTexts == {<<>>, <<"a">>, <<"a", ".", "b">>}

\* what the provider returns for a chunk
ProviderEmbedding(chunk) == IF chunk = <<"a">> THEN <<1, 0>> ELSE <<0, 1>>

\* variant: the embeddings come back in the order the provider finished
\* them, here the last value first
embedManyCompletionOrder(values) ==
    [i \in 1 .. Len(values) |-> ProviderEmbedding(values[Len(values) + 1 - i])]

\* embedMany({ values }): one embedding per value, in the order of the values
embedMany(values) == [i \in 1 .. Len(values) |-> ProviderEmbedding(values[i])]

\* generateEmbeddings after embedMany: embeddings.map((e, i) => ...)
generateEmbeddings(chunks) ==
    LET embeddings == embedMany(chunks)
    IN  [i \in 1 .. Len(embeddings) |->
            [content |-> chunks[i], embedding |-> embeddings[i]]]

\* chunks.map((chunk, i) => ({ id: `chunk_${Date.now()}_${i}`, ... }))
chunksWithIds(embedded, ms) ==
    [i \in 1 .. Len(embedded) |->
        ChunkWithEmbedding("chunk_" \o ToString(ms) \o "_" \o ToString(i - 1),
                           embedded[i].content, embedded[i].embedding,
                           "user-added", Undefined)]

\* the demo script's chunksWithIds: chunkIndex starts at 0 in every run
demoChunksWithIds(embedded) ==
    [i \in 1 .. Len(embedded) |->
        ChunkWithEmbedding("chunk_" \o ToString(i - 1),
                           embedded[i].content, embedded[i].embedding,
                           "material-specs.json", "material-spec")]

DemoTexts == {<<"a">>, <<"a", ".", "b">>}

InitRoute ==
    /\ file \in {Absent, Garbage, JSONstringify(EmbeddingStore(<<>>))}
    /\ NoFind
    /\ NoCosine
    /\ NoChunker
    /\ NoRoute
    /\ NoWriters
    /\ NoReader
    /\ NoTools

\* execute (line 25): the text is chunked and embedMany is awaited
AddResourceStarts(e, text) ==
    /\ exec[e].pc = "idle"
    /\ exec' = [exec EXCEPT ![e] = [pc |-> "awaitEmbed",
                                     content |-> generateChunks(text),
                                     batch |-> <<>>,
                                     overlapped |-> FALSE]]
    /\ UNCHANGED <<varsStore, varsCosine, varsChunker, now, completed, varsWriters, varsReader, varsTools>>

\* variant: the file is written from the batch alone, not from what it held
AddResourceResolvesOverwriting(e) ==
    /\ exec[e].pc = "awaitEmbed"
    /\ Len(file.doc.chunks) + Len(exec[e].content) <= MaxStore
    /\ LET batch == chunksWithIds(generateEmbeddings(exec[e].content), now)
           added == addChunksOverwriting(file, batch)
       IN  /\ file' = added.file
           /\ exec' = [exec EXCEPT ![e].pc = IF added.outcome.threw THEN "failed" ELSE "done",
                                    ![e].batch = batch,
                                    ![e].overlapped =
                                        \E d \in Execs : d # e /\ exec[d].pc = "awaitEmbed"]
           /\ completed' = IF added.outcome.threw THEN completed
                           ELSE Append(completed, batch)
    /\ UNCHANGED <<pc, args, store, queryEmbedding, outcome, last,
                   varsCosine, varsChunker, now, varsWriters, varsReader, varsTools>>

\* the await resumes (lines 25-36): ids are assigned and addChunks runs
AddResourceResolves(e) ==
    /\ exec[e].pc = "awaitEmbed"
    /\ Len(file.doc.chunks) + Len(exec[e].content) <= MaxStore
    /\ LET batch == chunksWithIds(generateEmbeddings(exec[e].content), now)
           added == addChunks(file, batch)
       IN  /\ file' = added.file
           /\ exec' = [exec EXCEPT ![e].pc = IF added.outcome.threw THEN "failed" ELSE "done",
                                    ![e].batch = batch,
                                    ![e].overlapped =
                                        \E d \in Execs : d # e /\ exec[d].pc = "awaitEmbed"]
           /\ completed' = IF added.outcome.threw THEN completed
                           ELSE Append(completed, batch)
    /\ UNCHANGED <<pc, args, store, queryEmbedding, outcome, last,
                   varsCosine, varsChunker, now, varsWriters, varsReader, varsTools>>

\* variant: the record of the first chunk is stored although embedMany failed
AddResourceRejectsPartial(e) ==
    /\ exec[e].pc = "awaitEmbed"
    /\ exec' = [exec EXCEPT ![e].pc = "failed"]
    /\ file' = addChunks(file, SubSeq(chunksWithIds(generateEmbeddings(exec[e].content), now),
                                      1, Min(1, Len(exec[e].content)))).file
    /\ UNCHANGED <<pc, args, store, queryEmbedding, outcome, last,
                   varsCosine, varsChunker, now, completed, varsWriters, varsReader, varsTools>>

\* embedMany fails: execute rejects before addChunks is reached
AddResourceRejects(e) ==
    /\ exec[e].pc = "awaitEmbed"
    /\ exec' = [exec EXCEPT ![e].pc = "failed"]
    /\ UNCHANGED <<varsStore, varsCosine, varsChunker, now, completed, varsWriters, varsReader, varsTools>>

\* a run of the demo script reaches its addChunks (line 90)
DemoIngest(text) ==
    /\ Len(file.doc.chunks) + Len(generateChunks(text)) <= MaxStore
    /\ LET batch == demoChunksWithIds(generateEmbeddings(generateChunks(text)))
           added == addChunks(file, batch)
       IN  /\ file' = added.file
           /\ completed' = IF added.outcome.threw THEN completed
                           ELSE Append(completed, batch)
    /\ UNCHANGED <<pc, args, store, queryEmbedding, outcome, last,
                   varsCosine, varsChunker, exec, now, varsWriters, varsReader, varsTools>>

\* a millisecond passes
Tick ==
    /\ now < MaxNow
    /\ now' = now + 1
    /\ UNCHANGED <<varsStore, varsCosine, varsChunker, exec, completed, varsWriters, varsReader, varsTools>>

\* getInformation.execute: findRelevantContent(path, question, 0.5, 4)
GetInformation(question) == FindRelevantContent(question, Frac(1, 2), 4)

NextRoute ==
    \/ \E e \in Execs, text \in RouteTexts : AddResourceStarts(e, text)
    \/ \E e \in Execs : AddResourceResolves(e)
    \/ \E e \in Execs : AddResourceRejects(e)
    \/ \E text \in DemoTexts : DemoIngest(text)
    \/ Tick
    \/ \E question \in Queries : GetInformation(question)
    \/ \E v \in QueryVecs : GenerateEmbeddingResolves(v)
    \/ GenerateEmbeddingRejects

SpecRoute == InitRoute /\ [][NextRoute]_vars

\* execution e's await ends in this step with the given position
Settles(e, position) == exec[e].pc = "awaitEmbed" /\ exec'[e].pc = position

\* C11: a step in which an addResource execution fails leaves the file as it
\* was; a step in which one succeeds appends one record per chunk, all at once;
\* and no other step changes the file except a demo run appending its whole
\* batch.  So the file never holds part of a batch.
C11_IngestionAllOrNothing ==
    [][/\ \A e \in Execs : Settles(e, "failed") => file' = file
       /\ \A e \in Execs : Settles(e, "done") =>
             /\ file'.doc.chunks = file.doc.chunks \o exec'[e].batch
             /\ Len(exec'[e].batch) = Len(exec[e].content)
       /\ file' # file =>
             \/ \E e \in Execs : Settles(e, "done")
             \/ \E text \in DemoTexts :
                   file'.doc.chunks = file.doc.chunks \o
                       demoChunksWithIds(generateEmbeddings(generateChunks(text)))]_vars

\* one execution failed at its embedding call, the other stored its two records
C11_Witness ==
    \E e, d \in Execs :
        /\ exec[e].pc = "failed"
        /\ Len(exec[e].content) = 2
        /\ exec[d].pc = "done"
        /\ Len(exec[d].batch) = 2
        /\ file.doc.chunks = exec[d].batch

\* C24: in one server process the file holds, one after the other and in the
\* order in which the calls returned, the batch of every addChunks call that
\* returned; so no record of a finished addResource execution is missing,
\* however the executions overlap.
RECURSIVE Flatten(_)
Flatten(batches) ==
    IF batches = <<>> THEN <<>> ELSE Head(batches) \o Flatten(Tail(batches))

C24_NoRecordLost ==
    /\ file.doc.chunks = Flatten(completed)
    /\ \A e \in Execs : exec[e].pc = "done" =>
          \E k \in 1 .. Len(completed) : completed[k] = exec[e].batch

\* one execution stored its record while the other was awaiting its
\* embeddings, the other stored its records later, and all are in the file
C24_Witness ==
    \E e, d \in Execs :
        /\ e # d
        /\ exec[e].pc = "done" /\ exec[d].pc = "done"
        /\ exec[d].overlapped /\ ~exec[e].overlapped
        /\ Len(exec[e].batch) = 2 /\ Len(exec[d].batch) = 1
        /\ completed = <<exec[d].batch, exec[e].batch>>
        /\ file.doc.chunks = exec[d].batch \o exec[e].batch

\* C25: an addResource execution that stored its batch stored one record per
\* chunk, the i-th with the i-th chunk's content and the embedding the
\* provider gives for that chunk; and every record in the file carries the
\* embedding of its own content.
C25_EmbeddingsPaired ==
    /\ \A e \in Execs : exec[e].pc = "done" =>
          /\ Len(exec[e].batch) = Len(exec[e].content)
          /\ \A i \in 1 .. Len(exec[e].batch) :
                /\ exec[e].batch[i].content = exec[e].content[i]
                /\ exec[e].batch[i].embedding = ProviderEmbedding(exec[e].content[i])
    /\ \A i \in 1 .. Len(file.doc.chunks) :
          file.doc.chunks[i].embedding = ProviderEmbedding(file.doc.chunks[i].content)

\* a text of two chunks with different embeddings has been stored
C25_Witness ==
    \E e \in Execs :
        /\ exec[e].pc = "done"
        /\ Len(exec[e].batch) = 2
        /\ exec[e].batch[1].embedding # exec[e].batch[2].embedding
        /\ \E k \in 0 .. Len(file.doc.chunks) - 2 :
              SubSeq(file.doc.chunks, k + 1, k + 2) = exec[e].batch

UniqueIds(f) ==
    \A i, j \in 1 .. Len(f.doc.chunks) :
        i # j => f.doc.chunks[i].id # f.doc.chunks[j].id

\* C13: after any sequence of addResource executions and demo runs no two
\* records in the file have the same id.
C13_IdsUnique == UniqueIds(file)

\* C17 as claimed: the records scored are those in the file when the embedding
\* call returns.
C17_ScoresFileAtEmbeddingReturn ==
    [][(pc = "awaitEmbed" /\ pc' = "done" /\ ~queryEmbedding'.threw)
          => store'.chunks = file'.doc.chunks]_vars

\* C17: the store is loaded when findRelevantContent is called, before the
\* embedding call; the records scored are those in the file at that moment.
C17_ScoresFileAtCall ==
    (pc = "done" /\ queryEmbedding.error = "none") =>
        /\ store = loadEmbeddings(last.before).value
        /\ outcome = rank(loadEmbeddings(last.before).value, queryEmbedding.value,
                          args.threshold, args.topK)

\* a record stored while the embedding call was pending would have matched,
\* and the result is empty
C17_Witness ==
    /\ pc = "done"
    /\ queryEmbedding.error = "none"
    /\ ~outcome.threw
    /\ outcome.value = <<>>
    /\ last.before.doc.chunks = <<>>
    /\ \E i \in 1 .. Len(file.doc.chunks) :
          AboveThreshold(calculateCosineSimilarity(queryEmbedding.value,
                             file.doc.chunks[i].embedding).value, args.threshold)

(***************************************************************************)
(* Inputs, writes and the shape of results                                 *)
(***************************************************************************)
\* an empty query, a negative topK, or a threshold outside [-1, 1]
InvalidInput(a) ==
    \/ a.userQuery = ""
    \/ a.topK < 0
    \/ FracCmp(a.threshold, Frac(1, 1)) = 1
    \/ FracCmp(a.threshold, Frac(0 - 1, 1)) = 0 - 1

\* C12: findRelevantContent called with an empty query, a negative topK or a
\* threshold outside [-1, 1] is rejected: the call throws.
C12_InvalidInputRejected ==
    (pc = "done" /\ last.op = "findRelevantContent" /\ InvalidInput(args))
        => outcome.threw

\* all records in file content f have embeddings of one length
UniformDimension(f) ==
    \A i, j \in 1 .. Len(f.doc.chunks) :
        Len(f.doc.chunks[i].embedding) = Len(f.doc.chunks[j].embedding)

\* C14: a store whose records all have embeddings of one length keeps that
\* property through every saveEmbeddings and addChunks.
C14_DimensionGuarded == [][UniformDimension(file) => UniformDimension(file')]_vars

\* C16: from the call of findRelevantContent to its end, whatever the outcome,
\* the backing file is what it was when the call was made.
C16_FindReadsOnly ==
    last.op = "findRelevantContent" => file = last.before

\* a search over a missing file has ended and the file is still missing
C16_Witness ==
    /\ last.op = "findRelevantContent"
    /\ pc = "done"
    /\ last.before.kind = "absent"
    /\ file.kind = "absent"

\* C18: every element of a result has the fields content, similarity, source
\* and metadata and no others, the three copied from one loaded record and the
\* similarity that of this record.
C18_ResultProjection ==
    FindReturned =>
        \A j \in 1 .. Len(outcome.value) :
            /\ DOMAIN outcome.value[j] = {"content", "similarity", "source", "metadata"}
            /\ \E i \in 1 .. Len(store.chunks) :
                  /\ outcome.value[j].content = store.chunks[i].content
                  /\ outcome.value[j].source = store.chunks[i].source
                  /\ outcome.value[j].metadata = store.chunks[i].metadata
                  /\ outcome.value[j].similarity = Score(i)

\* a result holds a record with metadata and a record without
C18_Witness ==
    /\ FindReturned
    /\ \E j, k \in 1 .. Len(outcome.value) :
          /\ outcome.value[j].metadata = Undefined
          /\ outcome.value[k].metadata # Undefined

(***************************************************************************)
(* Searches over stores of three kinds of record: along the query, across  *)
(* it, and close to it.  [0.9, 0.1] is held as <<9, 1>>: the cosine does   *)
(* not change when a vector is scaled by a positive factor.                *)
(***************************************************************************)
RecC == ChunkWithEmbedding("chunk_4", "C", <<9, 1>>, "procedures.json", "procedure")

ScenarioStores == {EmbeddingStore(s) : s \in SeqsUpTo({RecA, RecB, RecC}, MaxStore)}

InitScenario ==
    /\ file \in {JSONstringify(st) : st \in ScenarioStores}
    /\ NoFind
    /\ NoCosine
    /\ NoChunker
    /\ NoRoute
    /\ NoWriters
    /\ NoReader
    /\ NoTools

NextScenario ==
    \/ \E q \in Queries, t \in Thresholds, k \in TopKs : FindRelevantContent(q, t, k)
    \/ \E v \in QueryVecs : GenerateEmbeddingResolves(v)
    \/ GenerateEmbeddingRejects

SpecScenario == InitScenario /\ [][NextScenario]_vars

\* C23: over the store A [1,0], B [0,1], C [0.9,0.1], inserted in this order,
\* the query embedding [1,0] with threshold 0.5 and topK 2 yields exactly
\* A then C; B is not in the result.
Contents(result) == [j \in 1 .. Len(result) |-> result[j].content]

C23_ScenarioYieldsAThenC ==
    (/\ FindReturned
     /\ store.chunks = <<RecA, RecB, RecC>>
     /\ queryEmbedding.value = <<1, 0>>
     /\ args.threshold = Frac(1, 2)
     /\ args.topK = 2)
        => /\ Contents(outcome.value) = <<"A", "C">>
           /\ outcome.value = <<SimilarChunk(RecA, Frac(1, 1)),
                                SimilarChunk(RecC, Frac(81, 82))>>

\* the search of the scenario has returned
C23_Witness ==
    /\ FindReturned
    /\ file = JSONstringify(EmbeddingStore(<<RecA, RecB, RecC>>))
    /\ store.chunks = <<RecA, RecB, RecC>>
    /\ queryEmbedding = Return(<<1, 0>>)
    /\ args.threshold = Frac(1, 2)
    /\ args.topK = 2
    /\ Len(outcome.value) = 2

(***************************************************************************)
(* addChunks called by two operating-system processes on one file: the     *)
(* chat server (addResource) and the demo script.  Inside one process      *)
(* addChunks is synchronous; between processes the read of line 42 and the *)
(* write of line 44 are separate file-system calls and interleave.         *)
(***************************************************************************)
WriterFiles ==
    {Absent, Garbage, JSONstringify(EmptyObjectDoc)}
        \cup {JSONstringify(EmbeddingStore(s)) : s \in SeqsUpTo(Pool, 1)}

InitWriters ==
    /\ file \in WriterFiles
    /\ NoFind
    /\ NoCosine
    /\ NoChunker
    /\ NoRoute
    /\ NoWriters
    /\ NoReader
    /\ NoTools

\* line 42: the process reads the file; a file that does not parse ends the
\* call with the SyntaxError
WriterLoads(w, chunks) ==
    /\ writer[w].pc = "idle"
    /\ LET loaded == loadEmbeddings(file)
       IN  writer' = [writer EXCEPT ![w] =
                        IF loaded.threw
                        THEN [pc |-> "failed", loaded |-> NoDoc, chunks |-> chunks]
                        ELSE [pc |-> "loaded", loaded |-> loaded.value, chunks |-> chunks]]
    /\ UNCHANGED <<varsStore, varsCosine, varsChunker, varsRoute, lastWriter, varsReader, varsTools>>

\* variant: the write appends to what the file holds when it is written
WriterSavesFresh(w) ==
    /\ writer[w].pc = "loaded"
    /\ IF ~HasChunkList(writer[w].loaded)
       THEN /\ writer' = [writer EXCEPT ![w].pc = "failed"]
            /\ UNCHANGED <<file, lastWriter>>
       ELSE /\ file' = saveEmbeddings(file,
                          EmbeddingStore(loadEmbeddings(file).value.chunks
                                            \o writer[w].chunks))
            /\ writer' = [writer EXCEPT ![w].pc = "done"]
            /\ lastWriter' = w
    /\ UNCHANGED <<pc, args, store, queryEmbedding, outcome, last,
                   varsCosine, varsChunker, varsRoute, varsReader, varsTools>>

\* lines 43-44: push on what was read (a TypeError when it has no chunks
\* array), then the whole store object overwrites the file
WriterSaves(w) ==
    /\ writer[w].pc = "loaded"
    /\ IF ~HasChunkList(writer[w].loaded)
       THEN /\ writer' = [writer EXCEPT ![w].pc = "failed"]
            /\ UNCHANGED <<file, lastWriter>>
       ELSE /\ file' = saveEmbeddings(file,
                          EmbeddingStore(writer[w].loaded.chunks \o writer[w].chunks))
            /\ writer' = [writer EXCEPT ![w].pc = "done"]
            /\ lastWriter' = w
    /\ UNCHANGED <<pc, args, store, queryEmbedding, outcome, last,
                   varsCosine, varsChunker, varsRoute, varsReader, varsTools>>

NextWriters ==
    \/ \E w \in Writers, chunks \in Batches : WriterLoads(w, chunks)
    \/ \E w \in Writers : WriterSaves(w)

SpecWriters == InitWriters /\ [][NextWriters]_vars

\* C15: the file holds what the process that wrote last had read, followed by
\* that process's own records, whatever the other process wrote in between;
\* so when both read before either wrote, the earlier writer's records are
\* gone.
C15_LastWriterWins ==
    \A w \in Writers :
        lastWriter = w =>
            file = JSONstringify(EmbeddingStore(writer[w].loaded.chunks
                                                   \o writer[w].chunks))

\* both processes have written, both had read the same store, and no record
\* of the server's batch is in the file
C15_Witness ==
    /\ writer["server"].pc = "done"
    /\ writer["demo"].pc = "done"
    /\ writer["server"].loaded = writer["demo"].loaded
    /\ lastWriter = "demo"
    /\ writer["server"].chunks # <<>>
    /\ \A i \in 1 .. Len(writer["server"].chunks) :
          \A j \in 1 .. Len(file.doc.chunks) :
              file.doc.chunks[j].id # writer["server"].chunks[i].id

(***************************************************************************)
(* The RAG page's reader of the response stream (sendMessage).  The body   *)
(* is a sequence of characters; a read returns the next few of them, cut   *)
(* anywhere.  A character is a record: the newline, the blank, "data:"     *)
(* for the five characters d a t a :, the braces, and one character that   *)
(* stands for the members of a JSON object and carries them.               *)
(***************************************************************************)
Char(c) == [char |-> c]
Members(data) == [char |-> "members", data |-> data]
Newline == Char("\n")

ToolCallIds == {"c1", "c2"}
ToolNames == {"getInformation"}
Deltas == {<<"x">>, <<"y">>, <<>>}

\* the events the route streams: text, the steps of the call c1, and
\* results for c1 and for c2, a call that was never announced
Events ==
    {[type |-> "text-delta", delta |-> d] : d \in Deltas}
        \cup {[type |-> "tool-input-start", toolCallId |-> "c1", toolName |-> n] :
                 n \in ToolNames}
        \cup {[type |-> "tool-input-delta", toolCallId |-> "c1", inputTextDelta |-> <<"q">>]}
        \cup {[type |-> "tool-call", toolCallId |-> "c1", toolName |-> n,
               args |-> [question |-> "q"]] : n \in ToolNames}
        \cup {[type |-> "tool-result", toolCallId |-> c, result |-> <<"r">>] :
                 c \in ToolCallIds}

\* what else the body holds: the blank line between events and the end mark
BlankLine == [type |-> "blank line"]
DoneMark == [type |-> "[DONE]"]
Items == Events \cup {BlankLine, DoneMark}
Responses == SeqsUpTo(Items, MaxLines)

\* the line of an item, without its newline
Line(item) ==
    IF item = BlankLine THEN <<>>
    ELSE IF item = DoneMark THEN <<Char("data:"), Char(" "), Char("[DONE]")>>
    ELSE <<Char("data:"), Char(" "), Char("{"), Members(item), Char("}")>>

\* the body: every line ends with a newline
RECURSIVE Body(_)
Body(items) ==
    IF items = <<>> THEN <<>>
    ELSE Line(Head(items)) \o <<Newline>> \o Body(Tail(items))

\* buffer.split("\n")
RECURSIVE splitLines(_)
splitLines(chars) ==
    LET breaks == {i \in 1 .. Len(chars) : chars[i] = Newline}
    IN  IF breaks = {} THEN <<chars>>
        ELSE LET first == CHOOSE i \in breaks : \A k \in breaks : i <= k
             IN  <<SubSeq(chars, 1, first - 1)>>
                     \o splitLines(SubSeq(chars, first + 1, Len(chars)))

\* line.trim() === ""
IsBlank(line) == \A i \in 1 .. Len(line) : line[i] = Char(" ")

\* line.startsWith("data: ")
startsWithData(line) ==
    Len(line) >= 2 /\ line[1] = Char("data:") /\ line[2] = Char(" ")

\* JSON.parse(line.slice(6)): an object if the text is one, whole
JSONparseData(text) ==
    IF Len(text) = 3 /\ text[1] = Char("{") /\ text[2].char = "members" /\ text[3] = Char("}")
    THEN Return(text[2].data)
    ELSE Throw(SyntaxError)

\* the value of a part's input: "" and its extensions, or the args object
StringValue(chars) == [typeof |-> "string", chars |-> chars]
ObjectValue(object) == [typeof |-> "object", members |-> object]

ToolTypes == {"tool-" \o n : n \in ToolNames}

\* Array.prototype.findIndex, counting from 0: the first of the indices
\* that satisfy the test, -1 when there is none
findIndex(hits) ==
    IF hits = {} THEN 0 - 1
    ELSE (CHOOSE i \in hits : \A k \in hits : i <= k) - 1

\* p.type.startsWith("tool-") && "toolCallId" in p && p.toolCallId === id
toolPartIndex(seq, id) ==
    findIndex({i \in 1 .. Len(seq) :
                 /\ seq[i].type \in ToolTypes
                 /\ "toolCallId" \in DOMAIN seq[i]
                 /\ seq[i].toolCallId = id})

\* setMessages: the last message becomes a copy of assistantMessage
setMessages(message) == [parts |-> message.parts, shown |-> message.parts]

\* lines 71-99
handleTextDelta(message, data) ==
    IF data.delta = <<>> THEN message
    ELSE LET textPartIndex ==
                 findIndex({i \in 1 .. Len(message.parts) : message.parts[i].type = "text"})
         IN  IF textPartIndex >= 0
             THEN setMessages([message EXCEPT !.parts[textPartIndex + 1] =
                                  ("text" :> (@.text \o data.delta)) @@ @])
             ELSE setMessages([message EXCEPT !.parts =
                                  Append(@, [type |-> "text", text |-> data.delta])])

\* lines 101-127
handleToolInputStart(message, data) ==
    IF toolPartIndex(message.parts, data.toolCallId) >= 0 THEN message
    ELSE setMessages([message EXCEPT !.parts =
                         Append(@, [type |-> "tool-" \o data.toolName,
                                    toolCallId |-> data.toolCallId,
                                    state |-> "input-streaming",
                                    input |-> StringValue(<<>>)])])

\* lines 129-149
handleToolInputDelta(message, data) ==
    LET index == toolPartIndex(message.parts, data.toolCallId)
    IN  IF index >= 0 /\ message.parts[index + 1].input.typeof = "string"
        THEN setMessages([message EXCEPT !.parts[index + 1].input =
                             StringValue(@.chars \o data.inputTextDelta)])
        ELSE message

\* variant: a tool-call always adds a part
handleToolCallPushing(message, data) ==
    setMessages([message EXCEPT !.parts =
                    Append(@, [type |-> "tool-" \o data.toolName,
                               toolCallId |-> data.toolCallId,
                               state |-> "call",
                               input |-> ObjectValue(data.args)])])

\* lines 151-184
handleToolCall(message, data) ==
    LET index == toolPartIndex(message.parts, data.toolCallId)
    IN  IF index >= 0
        THEN setMessages([message EXCEPT !.parts[index + 1] =
                             ("state" :> "call" @@ "input" :> ObjectValue(data.args)) @@ @])
        ELSE setMessages([message EXCEPT !.parts =
                             Append(@, [type |-> "tool-" \o data.toolName,
                                        toolCallId |-> data.toolCallId,
                                        state |-> "call",
                                        input |-> ObjectValue(data.args)])])

\* lines 186-210
handleToolResult(message, data) ==
    LET index == toolPartIndex(message.parts, data.toolCallId)
    IN  IF index >= 0
        THEN setMessages([message EXCEPT !.parts[index + 1] =
                             ("state" :> "result" @@ "output" :> data.result) @@ @])
        ELSE message

\* lines 63-214: one line of the for loop
handleLine(message, line) ==
    IF IsBlank(line) THEN message
    ELSE IF ~startsWithData(line) THEN message
    ELSE LET parsed == JSONparseData(SubSeq(line, 3, Len(line)))
         IN  IF parsed.threw THEN message
             ELSE LET data == parsed.value
                  IN  CASE data.type = "text-delta" -> handleTextDelta(message, data)
                        [] data.type = "tool-input-start" -> handleToolInputStart(message, data)
                        [] data.type = "tool-input-delta" -> handleToolInputDelta(message, data)
                        [] data.type = "tool-call" -> handleToolCall(message, data)
                        [] data.type = "tool-result" -> handleToolResult(message, data)
                        [] OTHER -> message

\* for (const line of lines)
RECURSIVE handleLines(_, _)
handleLines(message, lines) ==
    IF lines = <<>> THEN message
    ELSE handleLines(handleLine(message, Head(lines)), Tail(lines))

\* the response has arrived and the empty assistant message is in the state
InitReader ==
    /\ file = Absent
    /\ NoFind
    /\ NoCosine
    /\ NoChunker
    /\ NoRoute
    /\ NoWriters
    /\ NoTools
    /\ response \in Responses
    /\ offset = 0
    /\ buffer = <<>>
    /\ parts = <<>>
    /\ shown = <<>>
    /\ cut = FALSE
    /\ reading = "reading"

\* the next n characters of the body
Chunk(n) == SubSeq(Body(response), offset + 1, Min(offset + n, Len(Body(response))))

\* variant: each read is split and handled by itself, nothing is kept for
\* the next read
ReadUnbuffered(n) ==
    /\ reading = "reading"
    /\ offset < Len(Body(response))
    /\ LET after == handleLines([parts |-> parts, shown |-> shown], splitLines(Chunk(n)))
       IN  /\ buffer' = <<>>
           /\ parts' = after.parts
           /\ shown' = after.shown
           /\ cut' = (cut \/ Chunk(n)[Len(Chunk(n))] # Newline)
    /\ offset' = offset + Len(Chunk(n))
    /\ UNCHANGED <<varsStore, varsCosine, varsChunker, varsRoute, varsWriters,
                   varsTools, response, reading>>

\* lines 55-215: a read returns a value; one turn of the while loop
Read(n) ==
    /\ reading = "reading"
    /\ offset < Len(Body(response))
    /\ LET lines == splitLines(buffer \o Chunk(n))
           after == handleLines([parts |-> parts, shown |-> shown],
                                SubSeq(lines, 1, Len(lines) - 1))
       IN  /\ buffer' = lines[Len(lines)]
           /\ parts' = after.parts
           /\ shown' = after.shown
           /\ cut' = (cut \/ lines[Len(lines)] # <<>>)
    /\ offset' = offset + Len(Chunk(n))
    /\ UNCHANGED <<varsStore, varsCosine, varsChunker, varsRoute, varsWriters,
                   varsTools, response, reading>>

\* lines 55-56: the body has ended, the loop breaks
ReadDone ==
    /\ reading = "reading"
    /\ offset = Len(Body(response))
    /\ reading' = "done"
    /\ UNCHANGED <<varsStore, varsCosine, varsChunker, varsRoute, varsWriters,
                   varsTools, response, offset, buffer, parts, shown, cut>>

\* a read returns one character, or up to MaxRead of them: two whole lines
ReadSizes == {1, MaxRead}

NextReader ==
    \/ \E n \in ReadSizes : Read(n)
    \/ ReadDone

SpecReader == InitReader /\ [][NextReader]_vars

\* the delta fields of the text-delta events among the items, one after the
\* other
RECURSIVE DeltasOf(_)
DeltasOf(items) ==
    IF items = <<>> THEN <<>>
    ELSE (IF Head(items).type = "text-delta" THEN Head(items).delta ELSE <<>>)
             \o DeltasOf(Tail(items))

\* the text of the message: that of its text part, empty when it has none
TextOf(message) ==
    LET texts == SelectSeq(message, LAMBDA p : p.type = "text")
    IN  IF texts = <<>> THEN <<>> ELSE texts[1].text

\* C26: when the loop has ended, the text of the assistant message, in the
\* object and in the page's state, is the concatenation in order of the
\* deltas of all text-delta events of the response, however the body was
\* cut into reads.
C26_TextIsAllDeltas ==
    reading = "done" =>
        /\ TextOf(parts) = DeltasOf(response)
        /\ TextOf(shown) = DeltasOf(response)
        /\ Len(SelectSeq(parts, LAMBDA p : p.type = "text")) <= 1

\* two different deltas arrived around a blank line, a read ended inside a
\* line, and the text is complete
C26_Witness ==
    /\ reading = "done"
    /\ cut
    /\ response = <<[type |-> "text-delta", delta |-> <<"x">>], BlankLine,
                    [type |-> "text-delta", delta |-> <<"y">>]>>
    /\ TextOf(shown) = <<"x", "y">>

\* the tool parts of the message with the given toolCallId
ToolPartsOf(message, id) ==
    SelectSeq(message, LAMBDA p : p.type \in ToolTypes /\ p.toolCallId = id)

\* the lines this step handles: those completed by the characters it reads
HandledLines ==
    LET lines == splitLines(buffer \o SubSeq(Body(response), offset + 1, offset'))
    IN  SubSeq(lines, 1, Len(lines) - 1)

\* the line is a tool-result event for a toolCallId that has no tool part
OrphanResult(line) ==
    \E c \in ToolCallIds :
        /\ line = Line([type |-> "tool-result", toolCallId |-> c, result |-> <<"r">>])
        /\ ToolPartsOf(parts, c) = <<>>

\* C27: after every read the message has at most one tool part for each
\* toolCallId, and a read that completes only tool-result events for
\* toolCallIds without a tool part leaves the parts as they were: a read
\* that changes them has completed some line of another kind.
C27_OneToolPartPerCall ==
    [][/\ \A c \in ToolCallIds : Len(ToolPartsOf(parts', c)) <= 1
       /\ (parts' # parts \/ shown' # shown) =>
             \E i \in 1 .. Len(HandledLines) : ~OrphanResult(HandledLines[i])]_vars

\* a tool-result without a part came first and left nothing; then the call
\* was announced and made, and there is one part for it
C27_Witness ==
    /\ reading = "done"
    /\ response = <<[type |-> "tool-result", toolCallId |-> "c1", result |-> <<"r">>],
                    [type |-> "tool-input-start", toolCallId |-> "c1",
                     toolName |-> "getInformation"],
                    [type |-> "tool-call", toolCallId |-> "c1", toolName |-> "getInformation",
                     args |-> [question |-> "q"]]>>
    /\ Len(parts) = 1
    /\ parts[1].state = "call"
    /\ parts[1].toolCallId = "c1"

(***************************************************************************)
(* The operator assistant's tools: getProductionStatus and                 *)
(* getWorkOrderStatus.  Each execute runs to its return without a real     *)
(* suspension.  Numbers are kept as their literals ("87.5"), dates as ISO  *)
(* strings; work order ids and customer names are sequences of characters, *)
(* since normalizeId and includes work on characters.                      *)
(***************************************************************************)
\* now.toISOString().split("T")[0] for the days the clock can show
Todays == {"2024-01-15", "2024-01-16", "2024-01-17"}

\* yesterday.setDate(yesterday.getDate() - 1) and toISOString, on these days
DayBefore(day) ==
    CASE day = "2024-01-15" -> "2024-01-14"
      [] day = "2024-01-16" -> "2024-01-15"
      [] day = "2024-01-17" -> "2024-01-16"

\* dates the model asks for: none, empty, the special words in two
\* spellings, days with data and a day without
DateInputs ==
    {Undefined, "", "today", "Today", "yesterday", "YESTERDAY",
     "2024-01-15", "2024-01-16", "2023-12-31"}
MetricInputs == {Undefined, "total", "efficiency", "quality", "all"}

\* String.prototype.toLowerCase on the date inputs
dateToLowerCase(date) ==
    CASE date = "Today" -> "today"
      [] date = "YESTERDAY" -> "yesterday"
      [] OTHER -> date

\* lines 42-77: of two properties with the same key the later one stays
mockData(day) ==
    ("2024-01-15" :>
        [date |-> "2024-01-15", totalProduction |-> "1320", unit |-> "tons",
         efficiency |-> "89.1", qualityRate |-> "98.8", defectRate |-> "1.2",
         activeWorkOrders |-> "4", completedWorkOrders |-> "4",
         currentShift |-> "Day Shift"])
    @@ (DayBefore(day) :>
        [date |-> DayBefore(day), totalProduction |-> "1180", unit |-> "tons",
         efficiency |-> "85.2", qualityRate |-> "97.5", defectRate |-> "2.5",
         activeWorkOrders |-> "6", completedWorkOrders |-> "2",
         currentShift |-> "Night Shift"])
    @@ (day :>
        [date |-> day, totalProduction |-> "1250", unit |-> "tons",
         efficiency |-> "87.5", qualityRate |-> "98.2", defectRate |-> "1.8",
         activeWorkOrders |-> "5", completedWorkOrders |-> "3",
         currentShift |-> "Day Shift"])

\* lines 87-99, reached only when today has no data
defaultData(queryDate) ==
    [date |-> queryDate, totalProduction |-> "0", unit |-> "tons",
     efficiency |-> "0", qualityRate |-> "0", defectRate |-> "0",
     activeWorkOrders |-> "0", completedWorkOrders |-> "0",
     message |-> "No data available for this date"]

\* lines 27-34
queryDateOf(date, day) ==
    IF date = Undefined THEN day
    ELSE IF dateToLowerCase(date) = "today" THEN day
    ELSE IF dateToLowerCase(date) = "yesterday" THEN DayBefore(day)
    ELSE IF date = "" THEN day
    ELSE date

\* lines 80-100
dataFor(queryDate, day) ==
    IF queryDate \in DOMAIN mockData(day) THEN mockData(day)[queryDate]
    ELSE IF day \in DOMAIN mockData(day) THEN mockData(day)[day]
    ELSE defaultData(queryDate)

\* lines 103-123
pickMetric(data, metric) ==
    IF metric \in DOMAIN data THEN metric :> data[metric]
    ELSE IF metric \o "Rate" \in DOMAIN data THEN metric :> data[metric \o "Rate"]
    ELSE metric :> "N/A"

\* execute({ date, metric = "all" }) on the given day
getProductionStatus(date, metric, day) ==
    LET chosen == IF metric = Undefined THEN "all" ELSE metric
        data == dataFor(queryDateOf(date, day), day)
    IN  IF chosen # "all" THEN pickMetric(data, chosen) ELSE data

\* an optional string argument: left out, or a string of characters
None == [given |-> FALSE, chars |-> <<>>]
Some(chars) == [given |-> TRUE, chars |-> chars]
\* the argument in a condition: undefined and "" are falsy
Truthy(arg) == arg.given /\ arg.chars # <<>>

UpperCase == <<"A", "B", "C", "D", "E", "I", "L", "M", "O", "R", "S", "W", "X", "Y", "Z">>
LowerCase == <<"a", "b", "c", "d", "e", "i", "l", "m", "o", "r", "s", "w", "x", "y", "z">>

\* String.prototype.toLowerCase
toLowerCase(chars) ==
    [i \in 1 .. Len(chars) |->
        IF \E k \in 1 .. Len(UpperCase) : UpperCase[k] = chars[i]
        THEN LowerCase[CHOOSE k \in 1 .. Len(UpperCase) : UpperCase[k] = chars[i]]
        ELSE chars[i]]

Separators == {"#", " ", "-"}

\* (id) => id.toLowerCase().replace(/[#\s-]/g, "")
normalizeId(id) == SelectSeq(toLowerCase(id), LAMBDA c : c \notin Separators)

\* String.prototype.includes
includes(chars, part) ==
    \E i \in 0 .. Len(chars) - Len(part) : SubSeq(chars, i + 1, i + Len(part)) = part

WO12345 ==
    [workOrderId |-> <<"W", "O", "-", "1", "2", "3", "4", "5">>,
     status |-> "in_progress", progress |-> "65", productGrade |-> "SS304",
     quantity |-> "500",
     customerName |-> <<"A", "B", "C", " ", "M", "a", "n", "u", "f", "a", "c", "t", "u", "r",
                        "i", "n", "g">>,
     expectedCompletion |-> "2024-01-15T14:00:00Z", currentStage |-> "Hot Rolling"]
WO12346 ==
    [workOrderId |-> <<"W", "O", "-", "1", "2", "3", "4", "6">>,
     status |-> "completed", progress |-> "100", productGrade |-> "SS316",
     quantity |-> "300",
     customerName |-> <<"X", "Y", "Z", " ", "C", "o", "r", "p">>,
     completedAt |-> "2024-01-15T12:30:00Z"]
ORD2024001 ==
    [workOrderId |-> <<"O", "R", "D", "-", "2", "0", "2", "4", "-", "0", "0", "1">>,
     status |-> "in_progress", progress |-> "45", productGrade |-> "SS304",
     quantity |-> "750",
     customerName |-> <<"S", "t", "e", "e", "l", " ", "W", "o", "r", "k", "s", " ", "L", "t", "d">>,
     expectedCompletion |-> "2024-02-20T10:00:00Z", currentStage |-> "Cold Rolling"]
N67890 ==
    [workOrderId |-> <<"#", "6", "7", "8", "9", "0">>,
     status |-> "pending", progress |-> "0", productGrade |-> "SS316",
     quantity |-> "200",
     customerName |-> <<"M", "e", "t", "a", "l", " ", "I", "n", "d", "u", "s", "t", "r", "i",
                        "e", "s", " ", "I", "n", "c">>,
     expectedCompletion |-> "2024-02-25T16:00:00Z", currentStage |-> "Scheduling"]

\* Object.values(mockData), in the order of the literal; the key of each is
\* its workOrderId
workOrders == <<WO12345, WO12346, ORD2024001, N67890>>

\* Array.prototype.find: the first element among those at the indices that
\* satisfy the test, if any
find(seq, hits) ==
    IF hits = {} THEN None
    ELSE Some(seq[CHOOSE i \in hits : \A k \in hits : i <= k])

\* execute({ workOrderId, customerName })
getWorkOrderStatus(workOrderId, customerName) ==
    IF Truthy(customerName) /\ ~Truthy(workOrderId)
    THEN LET byCustomer == {i \in 1 .. Len(workOrders) :
                                includes(toLowerCase(workOrders[i].customerName),
                                         toLowerCase(customerName.chars))}
             found == find(workOrders, byCustomer)
         IN  IF found.given THEN found.chars
             ELSE [error |-> "No work order found for customer", customerName |-> customerName.chars]
    ELSE IF Truthy(workOrderId)
    THEN LET normalizedQuery == normalizeId(workOrderId.chars)
             key(i) == workOrders[i].workOrderId
             exact == {i \in 1 .. Len(workOrders) : normalizeId(key(i)) = normalizedQuery}
             partial == {i \in 1 .. Len(workOrders) :
                            \/ includes(normalizeId(key(i)), normalizedQuery)
                            \/ includes(normalizedQuery, normalizeId(key(i)))}
             exactMatch == find(workOrders, exact)
             partialMatch == find(workOrders, partial)
         IN  IF exactMatch.given THEN exactMatch.chars
             ELSE IF partialMatch.given THEN partialMatch.chars
             ELSE [error |-> "Work order not found", workOrderId |-> workOrderId.chars]
    ELSE [error |-> "Please provide either work order ID or customer name"]

\* ids made of separators only, ids in the formats of the tool's description,
\* a partial id and ids of no work order
SeparatorIds == SeqsUpTo(Separators, MaxIdLen) \ {<<>>}
WorkOrderIdInputs ==
    {None, Some(<<>>)}
        \cup {Some(id) : id \in SeparatorIds}
        \cup {Some(<<"W", "O", "-", "1", "2", "3", "4", "5">>),
              Some(<<"w", "o", "1", "2", "3", "4", "6">>),
              Some(<<"#", "6", "7", "8", "9", "0">>),
              Some(<<"2", "0", "2", "4">>),
              Some(<<"W", "O", "-", "9", "9">>),
              Some(<<"X">>)}
CustomerNameInputs ==
    {None, Some(<<>>), Some(<<"x", "y", "z">>), Some(<<"A", "c", "m", "e">>)}

InitTools ==
    /\ file = Absent
    /\ NoFind
    /\ NoCosine
    /\ NoChunker
    /\ NoRoute
    /\ NoWriters
    /\ NoReader
    /\ today \in Todays
    /\ toolInput = [tool |-> "none"]
    /\ toolOutput = Pending

GetProductionStatus(date, metric) ==
    /\ toolInput' = [tool |-> "getProductionStatus", date |-> date, metric |-> metric]
    /\ toolOutput' = Return(getProductionStatus(date, metric, today))
    /\ UNCHANGED <<varsStore, varsCosine, varsChunker, varsRoute, varsWriters,
                   varsReader, today>>

GetWorkOrderStatus(workOrderId, customerName) ==
    /\ toolInput' = [tool |-> "getWorkOrderStatus", workOrderId |-> workOrderId,
                     customerName |-> customerName]
    /\ toolOutput' = Return(getWorkOrderStatus(workOrderId, customerName))
    /\ UNCHANGED <<varsStore, varsCosine, varsChunker, varsRoute, varsWriters,
                   varsReader, today>>

NextTools ==
    \/ \E date \in DateInputs, metric \in MetricInputs : GetProductionStatus(date, metric)
    \/ \E id \in WorkOrderIdInputs, name \in CustomerNameInputs : GetWorkOrderStatus(id, name)

SpecTools == InitTools /\ [][NextTools]_vars

\* the day's value for a metric: total production, efficiency, quality rate
ValueOf(data, metric) ==
    CASE metric = "total" -> data.totalProduction
      [] metric = "efficiency" -> data.efficiency
      [] metric = "quality" -> data.qualityRate

Asked == toolInput.tool = "getProductionStatus"

\* C28: for a metric among total, efficiency and quality and a day that has
\* data, getProductionStatus returns the object with this metric as its only
\* key and the day's value for it as the value, not "N/A".
C28_MetricReturnsValue ==
    (/\ Asked
     /\ toolInput.metric \in {"total", "efficiency", "quality"}
     /\ queryDateOf(toolInput.date, today) \in DOMAIN mockData(today))
        => /\ DOMAIN toolOutput.value = {toolInput.metric}
           /\ toolOutput.value[toolInput.metric] # "N/A"
           /\ toolOutput.value[toolInput.metric] =
                 ValueOf(mockData(today)[queryDateOf(toolInput.date, today)],
                         toolInput.metric)

\* C29: with metric "all" (given or by default) the date field of what
\* getProductionStatus returns is the date that was asked for.
C29_DateIsQueriedDate ==
    (Asked /\ toolInput.metric \in {Undefined, "all"})
        => toolOutput.value.date = queryDateOf(toolInput.date, today)

WorkOrderAsked == toolInput.tool = "getWorkOrderStatus"

OnlySeparators(id) == id # <<>> /\ \A i \in 1 .. Len(id) : id[i] \in Separators

\* the normalized id is not the normalized id of a work order, nor part of
\* one, nor does it contain one
MatchesNoWorkOrder(id) ==
    \A k \in 1 .. Len(workOrders) :
        /\ ~includes(normalizeId(workOrders[k].workOrderId), normalizeId(id))
        /\ ~includes(normalizeId(id), normalizeId(workOrders[k].workOrderId))

\* C30: for a workOrderId made only of '#', '-' and blanks, and for one that
\* matches no work order, getWorkOrderStatus returns an error result and not
\* a work order.
C30_InvalidIdGivesError ==
    (/\ WorkOrderAsked
     /\ Truthy(toolInput.workOrderId)
     /\ \/ OnlySeparators(toolInput.workOrderId.chars)
        \/ MatchesNoWorkOrder(toolInput.workOrderId.chars))
        => "error" \in DOMAIN toolOutput.value

====
